---- MODULE Spec2Model ----
(***************************************************************************)
(* Model of the resumable indexing loop of the media indexer bot           *)
(* (src/bot/handlers.py): the process-wide indexing_process session, the   *)
(* three start paths (message link, forwarded message, /start auto-start), *)
(* the stop command and the index_channel_messages task; and of the media  *)
(* handler handle_media_message with the files collection of               *)
(* src/bot/database.py; and of the track extraction extract_track_info     *)
(* (src/bot/utils.py) with the choice of the track identity of a message.  *)
(*                                                                         *)
(* Every coroutine is cut at its await expressions: one action is the code *)
(* that runs from the return (or raise) of one awaited call up to the next *)
(* await.  Code between two awaits runs atomically on the event loop.      *)
(***************************************************************************)
EXTENDS Bags, FiniteSets, Integers, Sequences, TLC

(* ------------------------------ bounds -------------------------------- *)
\* highest message sequence number of the channel
MaxSeq == 3
\* number of start requests (handler invocations) the environment issues
MaxHandlers == 2
\* max_failures of the loop, scaled down (50 in the source)
max_failures == 2
\* checkpoint cadence of the loop, scaled down (50 in the source)
SaveEvery == 2
\* first message id of the auto-start path, scaled down (18097631 in the source)
AutoStartId == 2
\* number of handle_media_message invocations that can be in progress at once
MaxMedia == 2
\* number of distinct file ids the channels carry
MaxFiles == 3
\* length of a Spotify track id, scaled down (22 in the source)
IdLen == 2
\* what follows 'info' is searched for track ids when it is longer than
\* this, scaled down (10 in the source)
MinInfoLen == 1
\* number of words, URLs and separators a caption is made of
MaxTokens == 3
\* length of the texts the cleaning step is applied to, in characters
MaxChars == 4
\* number of entity and button links of a message
MaxLinks == 2

(* ------------------------- program constants --------------------------- *)
\* a progress report is due every 20 processed files
ProgressEvery == 20

Handlers == 1..MaxHandlers
\* the one channel under scan
Chan == 1
Channels == {Chan}
\* Python None for an integer field
None == 0
Media == 1..MaxMedia
FileIds == 1..MaxFiles
\* the configured BACKUP_CHANNEL_ID
BackupChannel == 2

VARIABLES
    indexing_process,   \* the global session dict
    store,              \* persisted last indexed message id, per channel
    hs,                 \* per start request: position and locals of its handler
    loops,              \* per start request: the index_channel_messages task it spawned
    hist,               \* per loop task: observations used by the properties
    maxPassed,          \* per channel: largest sequence handed to a checkpoint so far
    files,              \* the files collection: a bag of documents
    mh,                 \* per handle_media_message invocation: position and locals
    backup_channel_id,  \* db.backup_channel_id (None: not configured)
    mon,                \* per /start request: position of its monitor task
    extraction          \* the message under track extraction, and what was extracted

scanVars == <<indexing_process, store, hs, loops, hist, maxPassed, mon>>
mediaVars == <<files, mh, backup_channel_id>>
vars == <<indexing_process, store, hs, loops, hist, maxPassed,
          files, mh, backup_channel_id, mon, extraction>>

Max(a, b) == IF a >= b THEN a ELSE b

(* --------------------------- document store --------------------------- *)
get_stored_last_indexed_message_id(s, chat_id) == s[chat_id]

update_last_indexed_message_id(s, chat_id, message_id) ==
    [s EXCEPT ![chat_id] = message_id]

(* ------------------------------ records -------------------------------- *)
IdleHandler == [pc |-> "idle", kind |-> "none", start |-> 0, target |-> 0, res |-> "none"]

\* a handler that has returned: its locals are gone, what it did stays
\* observable: "rejected" (session already active), "started" (task created)
\* or "failed" (an awaited call raised)
DoneHandler(res) == [IdleHandler EXCEPT !.pc = "done", !.res = res]

NoLoop == [pc |-> "none", start |-> 0, final |-> 0, cur |-> 0, cf |-> 0,
           saved |-> 0, processed |-> 0, errors |-> 0]

\* observations of one task: the final report chosen and emitted, the last
\* sequence fetched successfully and the last one whose iteration completed
\* (None: no such sequence yet), the current run of failed fetches, the
\* value of the final checkpoint, whether the loop was left with the stop
\* flag set, whether a stop was requested while the task ran (marked) and the
\* sequence in flight at that moment (mark; None: the loop was not entered),
\* the sequence numbers handed to client.get_messages in order (log), the
\* number of faults that occurred inside handle_media_message (itemFaults)
\* whether an edit of the status message raised outside the loop body
\* (sinkFailed), whether the message of the iteration under way carries media
\* (media) and whether a periodic checkpoint write has raised (saveFailed)
NoHist == [report |-> "none", outcome |-> "none", lastOk |-> None,
           lastDone |-> None, failRun |-> 0, ckpt |-> None,
           stopExit |-> FALSE, marked |-> FALSE, mark |-> None,
           log |-> <<>>, itemFaults |-> 0, sinkFailed |-> FALSE,
           media |-> FALSE, saveFailed |-> FALSE]

\* locals of one handle_media_message invocation: the file id of its message,
\* whether that file was recorded when the invocation began (known, an
\* observation), the value forward_to_backup returned, and how the invocation
\* ended (res); the locals are gone when it has returned
IdleMedia == [pc |-> "idle", file_id |-> None, known |-> FALSE,
              backup_file_id |-> None, res |-> "none"]

ScanInit ==
    /\ indexing_process = [active |-> FALSE, chat_id |-> None, message_id |-> None,
                           total |-> 0, processed |-> 0, stop_requested |-> FALSE]
    /\ store \in [Channels -> 0..MaxSeq]
    /\ maxPassed = store
    /\ hs = [h \in Handlers |-> IdleHandler]
    /\ loops = [h \in Handlers |-> NoLoop]
    /\ hist = [h \in Handlers |-> NoHist]
    /\ mon = [h \in Handlers |-> "none"]

MediaInitial(channel) ==
    /\ files = EmptyBag
    /\ mh = [m \in Media |-> IdleMedia]
    /\ backup_channel_id = channel

\* a message under track extraction: its text, the URL its text was made
\* from by putting separators in (<<>>: none), its entity and button links
NewExtraction(message_text, url, entity_urls) ==
    [pc |-> "new", message_text |-> message_text, url |-> url,
     entity_urls |-> entity_urls, comprehensive_clean |-> <<>>,
     track_info |-> [track_url |-> <<>>, track_id |-> <<>>, platform |-> "none"]]

NoExtraction == extraction = NewExtraction(<<>>, <<>>, <<>>)

Init == ScanInit /\ MediaInitial(BackupChannel) /\ NoExtraction

(* ---------------------- index_channel_messages ------------------------ *)
(* The operators below transform a "world" record                          *)
(*   W = [L: locals of the task, H: its observations, store, maxPassed]    *)
(* and are composed by the actions in the order the code runs them.        *)

World(l) == [L |-> loops[l], H |-> hist[l], store |-> store, maxPassed |-> maxPassed]

\* a checkpoint call that the store accepted
Checkpoint(W, chat_id, seq) ==
    [W EXCEPT !.store = update_last_indexed_message_id(W.store, chat_id, seq),
              !.maxPassed = [W.maxPassed EXCEPT ![chat_id] = Max(@, seq)]]

\* "Save progress every 50 messages": runs inside the try block of the fetch,
\* so a fault of the store lands in the handler of the failed fetch
\* variant that writes the checkpoint and forgets to move last_saved_progress
SaveProgress_KeepsSaved(W, fault) ==
    IF W.L.cur - W.L.saved >= SaveEvery
    THEN IF fault
         THEN [W EXCEPT !.L.cf = @ + 1, !.H.saveFailed = TRUE]
         ELSE Checkpoint(W, Chan, W.L.cur)
    ELSE W

SaveProgress(W, fault) ==
    IF W.L.cur - W.L.saved >= SaveEvery
    THEN IF fault
         THEN [W EXCEPT !.L.cf = @ + 1, !.H.saveFailed = TRUE]
         ELSE [Checkpoint(W, Chan, W.L.cur) EXCEPT !.L.saved = W.L.cur]
    ELSE W

\* variant that advances by two: every other message is skipped
NextMessage_SkipOne(W) ==
    [W EXCEPT !.L.cur = @ + 2, !.H.lastDone = W.L.cur, !.H.media = FALSE]

\* "Move to next message"
NextMessage(W) ==
    [W EXCEPT !.L.cur = @ + 1, !.H.lastDone = W.L.cur, !.H.media = FALSE]

\* off-by-one variant: the position of the next fetch is saved
final_processed_id_NoStepBack(current_msg_id) == current_msg_id

final_processed_id(current_msg_id) == current_msg_id - 1

\* the condition of the while loop
LoopCondition(L, stop_requested) ==
    /\ L.cf < max_failures
    /\ L.cur <= L.final
    /\ ~stop_requested

\* the code after the while loop up to the await of the final status edit:
\* final checkpoint, then the choice of the final report
FinalProgress(W, stop_requested, fault) ==
    IF fault
    THEN [W EXCEPT !.L.pc = "failed", !.H.stopExit = stop_requested]
    ELSE [Checkpoint(W, Chan, final_processed_id(W.L.cur)) EXCEPT
              !.L.pc = "final",
              !.H.ckpt = final_processed_id(W.L.cur),
              !.H.stopExit = stop_requested,
              !.H.report = IF stop_requested THEN "Stopped" ELSE "Completed"]

\* top of the while loop: either the next fetch is issued or the loop is left
LoopHead(W, stop_requested, fault) ==
    IF LoopCondition(W.L, stop_requested)
    THEN [W EXCEPT !.L.pc = "fetch", !.H.log = Append(@, W.L.cur)]
    ELSE FinalProgress(W, stop_requested, fault)

\* the tail of one iteration after the per-message work
EndIteration(W, stop_requested, saveFault, finalFault) ==
    LoopHead(NextMessage(SaveProgress(W, saveFault)), stop_requested, finalFault)

Commit(l, W) ==
    /\ loops' = [loops EXCEPT ![l] = W.L]
    /\ hist' = [hist EXCEPT ![l] = W.H]
    /\ store' = W.store
    /\ maxPassed' = W.maxPassed

\* the task runs for the first time: indexing_process["total"], first status edit
LoopStart(l) ==
    /\ loops[l].pc = "new"
    /\ indexing_process' = [indexing_process EXCEPT
           !.total = loops[l].final - loops[l].start + 1]
    /\ loops' = [loops EXCEPT ![l].pc = "init"]
    /\ UNCHANGED <<store, hs, hist, maxPassed>>
    /\ UNCHANGED <<mediaVars, mon, extraction>>

\* the two initial status edits return (or one of them raises): the tracking
\* variables are initialised and the loop is entered
InitReturns(l, ok, finalFault) ==
    /\ loops[l].pc = "init"
    /\ IF ok
       THEN LET W0 == World(l)
                W1 == [W0 EXCEPT !.L.cur = W0.L.start, !.L.cf = 0,
                                 !.L.saved = W0.L.start,
                                 !.L.processed = 0, !.L.errors = 0]
            IN Commit(l, LoopHead(W1, indexing_process.stop_requested, finalFault))
       ELSE /\ loops' = [loops EXCEPT ![l].pc = "failed"]
            /\ hist' = [hist EXCEPT ![l].sinkFailed = TRUE]
            /\ UNCHANGED <<store, maxPassed>>
    /\ UNCHANGED <<indexing_process, hs>>
    /\ UNCHANGED <<mediaVars, mon, extraction>>

\* variant that takes every fetched message into the media branch
HasMedia_AnyMessage(result) == result # "fail"

\* "if msg and (msg.audio or msg.video or msg.document or msg.photo)"
HasMedia(result) == result = "media"

\* client.get_messages returns: a failure, a message without media, or media.
\* In the media branch the loop sleeps when less than rate_limit_delay has
\* passed since the last processed message (sleepDue; last_message_time is 0
\* until a message has been processed), then awaits handle_media_message
FetchReturns(l, result, sleepDue, saveFault, finalFault) ==
    /\ loops[l].pc = "fetch"
    /\ sleepDue => loops[l].processed > 0
    /\ LET W0 == World(l) IN
       IF result = "fail"
       THEN Commit(l, LoopHead(
                NextMessage([W0 EXCEPT !.L.cf = @ + 1, !.H.failRun = @ + 1]),
                indexing_process.stop_requested, finalFault))
       ELSE LET W1 == [W0 EXCEPT !.L.cf = 0, !.H.failRun = 0,
                                 !.H.lastOk = W0.L.cur,
                                 !.H.media = (result = "media")]
            IN  IF HasMedia(result)
                THEN Commit(l, [W1 EXCEPT !.L.pc = IF sleepDue THEN "sleep" ELSE "item"])
                ELSE Commit(l, EndIteration(W1, indexing_process.stop_requested,
                                            saveFault, finalFault))
    /\ UNCHANGED <<indexing_process, hs>>
    /\ UNCHANGED <<mediaVars, mon, extraction>>

\* the rate-limit sleep returns: handle_media_message is called
SleepReturns(l) ==
    /\ loops[l].pc = "sleep"
    /\ loops' = [loops EXCEPT ![l].pc = "item"]
    /\ UNCHANGED <<indexing_process, store, hs, hist, maxPassed>>
    /\ UNCHANGED <<mediaVars, mon, extraction>>

\* handle_media_message returns.  handle_media_message
\* catches every exception itself and returns normally, so a fault inside it
\* (itemFault) does not reach the except-clause of the loop; a progress
\* report is due after two minutes or every ProgressEvery files
ItemReturns(l, itemFault, timeDue, saveFault, finalFault) ==
    /\ loops[l].pc = "item"
    /\ LET W0 == World(l)
           W1 == [W0 EXCEPT !.L.processed = @ + 1,
                            !.H.itemFaults = IF itemFault THEN @ + 1 ELSE @]
       IN /\ indexing_process' = [indexing_process EXCEPT !.processed = W1.L.processed]
          /\ IF timeDue \/ W1.L.processed % ProgressEvery = 0
             THEN Commit(l, [W1 EXCEPT !.L.pc = "report"])
             ELSE Commit(l, EndIteration(W1, indexing_process.stop_requested,
                                         saveFault, finalFault))
    /\ UNCHANGED hs
    /\ UNCHANGED <<mediaVars, mon, extraction>>

\* the progress edit returns or raises; a raise is counted as an item error
ReportReturns(l, ok, saveFault, finalFault) ==
    /\ loops[l].pc = "report"
    /\ LET W0 == World(l)
           W1 == IF ok THEN W0 ELSE [W0 EXCEPT !.L.errors = @ + 1]
       IN Commit(l, EndIteration(W1, indexing_process.stop_requested,
                                 saveFault, finalFault))
    /\ UNCHANGED <<indexing_process, hs>>
    /\ UNCHANGED <<mediaVars, mon, extraction>>

\* the task is over: its locals are gone, the outcome stays observable
Finished(l, outcome) ==
    /\ loops' = [loops EXCEPT ![l] = [NoLoop EXCEPT !.pc = "done"]]
    /\ hist' = [hist EXCEPT ![l] = [NoHist EXCEPT !.outcome = outcome]]

\* the final status edit returns: finally-block; or raises: except-block
FinalReturns(l, ok) ==
    /\ loops[l].pc = "final"
    /\ IF ok
       THEN /\ Finished(l, hist[l].report)
            /\ indexing_process' = [indexing_process EXCEPT !.active = FALSE]
       ELSE /\ loops' = [loops EXCEPT ![l].pc = "failed"]
            /\ hist' = [hist EXCEPT ![l].sinkFailed = TRUE]
            /\ UNCHANGED indexing_process
    /\ UNCHANGED <<store, hs, maxPassed>>
    /\ UNCHANGED <<mediaVars, mon, extraction>>

\* the "Indexing Failed" edit of the except-block returns or raises: finally
FailedReturns(l) ==
    /\ loops[l].pc = "failed"
    /\ Finished(l, "Failed")
    /\ indexing_process' = [indexing_process EXCEPT !.active = FALSE]
    /\ UNCHANGED <<store, hs, maxPassed>>
    /\ UNCHANGED <<mediaVars, mon, extraction>>

(* --------------------------- start requests --------------------------- *)
\* variant without the guard: a start request is never turned away
AlreadyActive_Unguarded(p) == FALSE

\* the test of indexing_process["active"] that guards every start path
AlreadyActive(p) == p.active

\* resume point of the message-link path
LinkStart(last_indexed) == IF last_indexed > 1 THEN last_indexed + 1 ELSE 1

\* resume point of the auto-start path
AutoStart(last_indexed) ==
    IF last_indexed >= AutoStartId THEN last_indexed + 1 ELSE AutoStartId

\* "Use target_message_id or start_message_id as end point"
EndMessageId(target_message_id, start_message_id) ==
    IF target_message_id # None THEN target_message_id ELSE start_message_id

\* a message link t.me/<channel>/<message_id> arrives
ReceiveLink(h, message_id) ==
    /\ hs[h].pc = "idle"
    /\ IF AlreadyActive(indexing_process)
       THEN hs' = [hs EXCEPT ![h] = DoneHandler("rejected")]
       ELSE hs' = [hs EXCEPT ![h] = [IdleHandler EXCEPT !.pc = "chat",
                                        !.kind = "link", !.target = message_id]]
    /\ UNCHANGED <<indexing_process, store, loops, hist, maxPassed>>
    /\ UNCHANGED <<mediaVars, mon, extraction>>

\* a message forwarded from the channel arrives
ReceiveForward(h, forward_from_message_id) ==
    /\ hs[h].pc = "idle"
    /\ IF AlreadyActive(indexing_process)
       THEN hs' = [hs EXCEPT ![h] = DoneHandler("rejected")]
       ELSE hs' = [hs EXCEPT ![h] = [IdleHandler EXCEPT !.pc = "sip",
                                        !.kind = "fwd",
                                        !.start = forward_from_message_id,
                                        !.target = None]]
    /\ UNCHANGED <<indexing_process, store, loops, hist, maxPassed>>
    /\ UNCHANGED <<mediaVars, mon, extraction>>

\* /start arrives: the welcome text is sent first
ReceiveStart(h) ==
    /\ hs[h].pc = "idle"
    /\ hs' = [hs EXCEPT ![h].pc = "welcome", ![h].kind = "auto"]
    /\ UNCHANGED <<indexing_process, store, loops, hist, maxPassed>>
    /\ UNCHANGED <<mediaVars, mon, extraction>>

\* the welcome reply returns (or raises, which ends the handler); then the
\* active test of the auto-start
WelcomeReturns(h, ok) ==
    /\ hs[h].pc = "welcome"
    /\ IF ~ok
       THEN hs' = [hs EXCEPT ![h] = DoneHandler("failed")]
       ELSE IF AlreadyActive(indexing_process)
            THEN hs' = [hs EXCEPT ![h] = DoneHandler("rejected")]
            ELSE hs' = [hs EXCEPT ![h].pc = "chat"]
    /\ UNCHANGED <<indexing_process, store, loops, hist, maxPassed>>
    /\ UNCHANGED <<mediaVars, mon, extraction>>

\* client.get_chat of the link handler / of the auto-start returns or raises;
\* on success the stored progress is read and the range is chosen.  latest is
\* the target the auto-start obtains (latest message id or its fallback)
GetChatReturns(h, ok, latest) ==
    /\ hs[h].pc = "chat"
    /\ IF ok
       THEN LET last_indexed == get_stored_last_indexed_message_id(store, Chan)
            IN IF hs[h].kind = "link"
               THEN hs' = [hs EXCEPT ![h].pc = "sip",
                                     ![h].start = LinkStart(last_indexed)]
               ELSE hs' = [hs EXCEPT ![h].pc = "sip",
                                     ![h].start = AutoStart(last_indexed),
                                     ![h].target = latest]
       ELSE hs' = [hs EXCEPT ![h] = DoneHandler("failed")]
    /\ UNCHANGED <<indexing_process, store, loops, hist, maxPassed>>
    /\ UNCHANGED <<mediaVars, mon, extraction>>

\* start_indexing_process has returned to its caller (it catches its own
\* exceptions): auto_start_spotifyapk_indexing then creates the monitor task,
\* which first waits while a session is active ("wait")
MonitorCreated(h) ==
    IF hs[h].kind = "auto" THEN [mon EXCEPT ![h] = "wait"] ELSE mon

\* start_indexing_process: client.get_chat returns or raises; on success the
\* session is initialised, the stored progress is read for the status text
\* (storeOk) and the status reply is awaited
SipGetChatReturns(h, ok, storeOk) ==
    /\ hs[h].pc = "sip"
    /\ IF ok
       THEN /\ indexing_process' = [indexing_process EXCEPT
                   !.active = TRUE, !.chat_id = Chan,
                   !.message_id = hs[h].start, !.total = 0,
                   !.processed = 0, !.stop_requested = FALSE]
            /\ hs' = [hs EXCEPT ![h] = IF storeOk THEN [@ EXCEPT !.pc = "reply"]
                                                ELSE DoneHandler("failed")]
       ELSE /\ hs' = [hs EXCEPT ![h] = DoneHandler("failed")]
            /\ UNCHANGED indexing_process
    /\ mon' = IF hs'[h].pc = "done" THEN MonitorCreated(h) ELSE mon
    /\ UNCHANGED <<store, loops, hist, maxPassed>>
    /\ UNCHANGED <<mediaVars, extraction>>

\* the status reply returns: the task is created; or raises: the except-block
\* only logs and replies
ReplyReturns(h, ok) ==
    /\ hs[h].pc = "reply"
    /\ hs' = [hs EXCEPT ![h] = DoneHandler(IF ok THEN "started" ELSE "failed")]
    /\ IF ok
       THEN loops' = [loops EXCEPT ![h] =
                [NoLoop EXCEPT !.pc = "new", !.start = hs[h].start,
                               !.final = EndMessageId(hs[h].target, hs[h].start)]]
       ELSE UNCHANGED loops
    /\ mon' = MonitorCreated(h)
    /\ UNCHANGED <<indexing_process, store, hist, maxPassed>>
    /\ UNCHANGED <<mediaVars, extraction>>

(* ------------------------------ stop ---------------------------------- *)
Running(l) == loops[l].pc \in {"new", "init", "fetch", "sleep", "item", "report"}

\* the sequence number a running task has in flight (none before the loop)
InFlight(l) == IF loops[l].pc \in {"fetch", "sleep", "item", "report"}
               THEN loops[l].cur ELSE None

\* /stop_index or /cancel
handle_stop_index_command ==
    /\ indexing_process.active
    /\ indexing_process' = [indexing_process EXCEPT !.stop_requested = TRUE]
    /\ hist' = [l \in Handlers |->
                  IF Running(l) /\ ~hist[l].marked
                  THEN [hist[l] EXCEPT !.marked = TRUE, !.mark = InFlight(l)]
                  ELSE hist[l]]
    /\ UNCHANGED <<store, hs, loops, maxPassed>>
    /\ UNCHANGED <<mediaVars, mon, extraction>>

(* --------------------- start_continuous_monitoring -------------------- *)
\* "while indexing_process['active']: await asyncio.sleep(5)" is left
MonWaitOver(h) ==
    /\ mon[h] = "wait"
    /\ ~indexing_process.active
    /\ mon' = [mon EXCEPT ![h] = "sleep"]
    /\ UNCHANGED <<indexing_process, store, hs, loops, hist, maxPassed>>
    /\ UNCHANGED <<mediaVars, extraction>>

\* asyncio.sleep(30) returns: the latest message id is asked for
MonSleepReturns(h) ==
    /\ mon[h] = "sleep"
    /\ mon' = [mon EXCEPT ![h] = "history"]
    /\ UNCHANGED <<indexing_process, store, hs, loops, hist, maxPassed>>
    /\ UNCHANGED <<mediaVars, extraction>>

\* client.get_chat_history raises, returns nothing newer than
\* last_processed_id, or returns a newer latest message id: the first new
\* message is fetched
MonHistoryReturns(h, result) ==
    /\ mon[h] = "history"
    /\ mon' = [mon EXCEPT ![h] = IF result = "new" THEN "fetch" ELSE "sleep"]
    /\ UNCHANGED <<indexing_process, store, hs, loops, hist, maxPassed>>
    /\ UNCHANGED <<mediaVars, extraction>>

\* client.get_messages of the monitor raises ("continue": the next message of
\* the range, if there is one), or returns a message without media (the 0.5 s
\* delay) or with media (handle_media_message)
MonFetchReturns(h, result, more) ==
    /\ mon[h] = "fetch"
    /\ mon' = [mon EXCEPT ![h] =
          CASE result = "fail"    -> IF more THEN "fetch" ELSE "sleep"
            [] result = "nomedia" -> "gap"
            [] result = "media"   -> "item"]
    /\ UNCHANGED <<indexing_process, store, hs, loops, hist, maxPassed>>
    /\ UNCHANGED <<mediaVars, extraction>>

\* handle_media_message returns to the monitor
MonItemReturns(h) ==
    /\ mon[h] = "item"
    /\ mon' = [mon EXCEPT ![h] = "gap"]
    /\ UNCHANGED <<indexing_process, store, hs, loops, hist, maxPassed>>
    /\ UNCHANGED <<mediaVars, extraction>>

\* asyncio.sleep(0.5) returns: the next message of the range, or the range is
\* done and the monitor sleeps again
MonGapReturns(h, more) ==
    /\ mon[h] = "gap"
    /\ mon' = [mon EXCEPT ![h] = IF more THEN "fetch" ELSE "sleep"]
    /\ UNCHANGED <<indexing_process, store, hs, loops, hist, maxPassed>>
    /\ UNCHANGED <<mediaVars, extraction>>

(* ------------------------ handle_media_message ------------------------ *)
\* get_file_metadata: the identifiers of the file a message carries.  Telegram
\* gives the same content a new file_id on every upload and the same
\* file_unique_id: file ids 2k-1 and 2k are two uploads of content k
get_file_metadata(file_id) ==
    [file_id |-> file_id, file_unique_id |-> (file_id + 1) \div 2]

\* collection.find({key: value})
Matching(collection, key, value) ==
    {d \in BagToSet(collection) : d[key] = value}

\* the lookups return None (no document) when the query raises
get_file_by_id(collection, file_id, fault) ==
    IF fault THEN {} ELSE Matching(collection, "file_id", file_id)

get_file_by_unique_id(collection, unique_id, fault) ==
    IF fault THEN {} ELSE Matching(collection, "file_unique_id", unique_id)

get_file_by_backup_id(collection, backup_file_id, fault) ==
    IF fault THEN {} ELSE Matching(collection, "backup_file_id", backup_file_id)

\* variant without the unique index on file_id
insert_file_NoUniqueIndex(collection, document, fault) ==
    IF fault
    THEN [collection |-> collection, result |-> "failed"]
    ELSE [collection |-> collection (+) SetToBag({document}), result |-> "indexed"]

\* insert_one under the unique index on file_id; the index on file_unique_id
\* is not unique.  DuplicateKeyError ("duplicate") and any other exception
\* ("failed") both make insert_file return False
insert_file(collection, document, fault) ==
    IF fault
    THEN [collection |-> collection, result |-> "failed"]
    ELSE IF Matching(collection, "file_id", document.file_id) # {}
    THEN [collection |-> collection, result |-> "duplicate"]
    ELSE [collection |-> collection (+) SetToBag({document}), result |-> "indexed"]

\* the value forward_to_backup returns.  Without a configured channel it
\* returns None; when a document has this file id as its backup_file_id it
\* returns the stored backup id; otherwise it calls
\*     format_file_caption(message, minimal_format=True, ...)
\* with a keyword format_file_caption does not have (utils.py:253), the call
\* raises TypeError, "except Exception" catches it and the function returns
\* None.  The sends, the FloodWait handler and its retry lie behind that call
\* and are never executed, so forward_to_backup awaits nothing
forward_to_backup(collection, channel, file_id, lookupFault) ==
    IF channel = None
    THEN None
    ELSE LET existing_backup == get_file_by_backup_id(collection, file_id, lookupFault)
         IN  IF existing_backup # {}
             THEN (CHOOSE d \in existing_backup : TRUE).backup_file_id
             ELSE None

\* a media message arrives (from the scan loop, the monitor or live): the
\* duplicate checks, the track extraction and forward_to_backup, up to
\* asyncio.sleep(0.1).  Any exception ends the invocation in its own
\* except-clause
handle_media_message(m, file_id, idFault, uniqueFault, extractFault, lookupFault) ==
    /\ mh[m].pc \in {"idle", "done"}
    /\ LET file_data == get_file_metadata(file_id)
           existing_file == get_file_by_id(files, file_data.file_id, idFault)
           existing_unique ==
               get_file_by_unique_id(files, file_data.file_unique_id, uniqueFault)
           recorded ==
               \/ Matching(files, "file_id", file_data.file_id) # {}
               \/ Matching(files, "file_unique_id", file_data.file_unique_id) # {}
       IN  mh' = [mh EXCEPT ![m] =
                 IF existing_file # {} \/ existing_unique # {}
                 THEN [IdleMedia EXCEPT !.pc = "done", !.res = "skipped"]
                 ELSE IF extractFault
                 THEN [IdleMedia EXCEPT !.pc = "done", !.res = "error"]
                 ELSE [IdleMedia EXCEPT
                          !.pc = "pause", !.file_id = file_id, !.known = recorded,
                          !.backup_file_id =
                              forward_to_backup(files, backup_channel_id,
                                                file_data.file_id, lookupFault)]]
    /\ UNCHANGED <<files, backup_channel_id>>
    /\ UNCHANGED <<scanVars, extraction>>

\* asyncio.sleep(0.1) returns: the document is built and inserted; the result
\* of insert_file is only logged
PauseReturns(m, insertFault) ==
    /\ mh[m].pc = "pause"
    /\ LET file_data == get_file_metadata(mh[m].file_id)
           document == [file_id |-> file_data.file_id,
                        backup_file_id |-> mh[m].backup_file_id,
                        file_unique_id |-> file_data.file_unique_id]
           inserted == insert_file(files, document, insertFault)
       IN  /\ files' = inserted.collection
           /\ mh' = [mh EXCEPT ![m] =
                         [IdleMedia EXCEPT !.pc = "done", !.res = inserted.result]]
    /\ UNCHANGED backup_channel_id
    /\ UNCHANGED <<scanVars, extraction>>

(* ------------------------- extract_track_info ------------------------- *)
(* Text is a sequence of symbols.  A symbol is one character of the text,  *)
(* or one half of a literal that the patterns of the source spell out      *)
(* ("https://", "open.spotify.com", "/track/"), or the whole of the        *)
(* literal "youtu.be/" or of the word "info".  The letters "a" and "b" and *)
(* the word "info" are alphanumeric; "@" is the punctuation that opens a   *)
(* mention.  The texts of the model hold no "|", ")" or upper-case letter, *)
(* so the patterns that differ only in case or need a "|" add no           *)
(* candidate of their own, and http and https are one scheme.              *)

SHY == "U+00AD"
ISEP == "U+2063"
Scheme == <<"htt", "ps://">>
SpotifyHost == <<"open.", "spotify.com">>
TrackPath == <<"/tra", "ck/">>
YoutuBe == <<"youtu.be/">>
SpotifyPrefix == Scheme \o SpotifyHost \o TrackPath

Whitespace == {" ", "\n"}
Alnum == {"a", "b", "info"}
Symbols == {"htt", "ps://", "open.", "spotify.com", "/tra", "ck/", "youtu.be/",
            "info", "a", "b", "@", SHY, ISEP} \cup Whitespace
\* [^\s\)\n]
UrlChars == Symbols \ Whitespace

\* the literal lit stands in text t at position i
At(t, i, lit) ==
    /\ i >= 1
    /\ i + Len(lit) - 1 <= Len(t)
    /\ SubSeq(t, i, i + Len(lit) - 1) = lit

\* 'lit in t'
Contains(t, lit) == \E i \in 1..Len(t) : At(t, i, lit)

\* last position of the longest run of symbols of a class that starts at i
\* (i - 1 when the run is empty): a greedy  [class]*
RunEnd(t, i, class) ==
    CHOOSE j \in (i - 1)..Len(t) :
        /\ \A k \in i..j : t[k] \in class
        /\ j = Len(t) \/ t[j + 1] \notin class

\* the separator characters, in the order the source lists them
separator_chars == <<ISEP, SHY>>

Replace(t, separator_char) == SelectSeq(t, LAMBDA s : s # separator_char)

RemoveSeparators_OnlyFirst(t) == Replace(t, separator_chars[1])

\* for separator_char in separator_chars: replace(separator_char, '')
RemoveSeparators(t) == Replace(Replace(t, separator_chars[1]), separator_chars[2])

RECURSIVE CollapseFrom(_, _)
CollapseFrom(t, i) ==
    IF i > Len(t) THEN <<>>
    ELSE IF t[i] \in Whitespace
         THEN <<" ">> \o CollapseFrom(t, RunEnd(t, i, Whitespace) + 1)
         ELSE <<t[i]>> \o CollapseFrom(t, i + 1)

\* re.sub(r'\s+', ' ', t)
CollapseWhitespace(t) == CollapseFrom(t, 1)

comprehensive_clean_CollapseFirst(caption) ==
    RemoveSeparators(CollapseWhitespace(caption))

\* the cleaned caption: separators removed, then whitespace runs collapsed
comprehensive_clean(caption) == CollapseWhitespace(RemoveSeparators(caption))

NoMatch == [end |-> 0, group |-> <<>>]

\* https?:// followed by one or more of [^\s\)\n] stands at position j
UrlAt(t, j) == At(t, j, Scheme) /\ RunEnd(t, j + 2, UrlChars) >= j + 2

\* first position from i on where a URL of the general pattern starts and
\* that no newline separates from i (0: none): the lazy  [^\n]*?  before it
UrlAfter(t, i) ==
    LET starts == {j \in i..Len(t) :
                     UrlAt(t, j) /\ \A k \in i..(j - 1) : t[k] # "\n"}
    IN IF starts = {} THEN 0 ELSE CHOOSE j \in starts : \A o \in starts : j <= o

\* https?://[^\s\)\n]+  at position i
UrlMatch(t, i) ==
    IF UrlAt(t, i)
    THEN [end |-> RunEnd(t, i + 2, UrlChars),
          group |-> SubSeq(t, i, RunEnd(t, i + 2, UrlChars))]
    ELSE NoMatch

SkipSpace(t, i) == RunEnd(t, i, Whitespace) + 1

\* one match attempt of a pattern at position i of text t: the position
\* where the match ends (0: no match here) and what findall returns for it
Match(pattern, t, i) ==
    CASE pattern = "spotify" ->
           \* https?://open\.spotify\.com/track/[a-zA-Z0-9]+
           IF At(t, i, SpotifyPrefix) /\ RunEnd(t, i + 6, Alnum) >= i + 6
           THEN [end |-> RunEnd(t, i + 6, Alnum),
                 group |-> SubSeq(t, i, RunEnd(t, i + 6, Alnum))]
           ELSE NoMatch
      [] pattern = "youtu.be" ->
           \* https?://youtu\.be/([a-zA-Z0-9_-]+)
           IF At(t, i, Scheme \o YoutuBe) /\ RunEnd(t, i + 3, Alnum) >= i + 3
           THEN [end |-> RunEnd(t, i + 3, Alnum),
                 group |-> SubSeq(t, i, RunEnd(t, i + 3, Alnum))]
           ELSE NoMatch
      [] pattern = "url" -> UrlMatch(t, i)
      [] pattern = "info_url" ->
           \* info[^\n]*?(https?://[^\s\)\n]+)
           IF At(t, i, <<"info">>) /\ UrlAfter(t, i + 1) > 0
           THEN UrlMatch(t, UrlAfter(t, i + 1))
           ELSE NoMatch
      [] pattern = "info_section" ->
           \* info[\s]*([^\s\n]*)
           IF At(t, i, <<"info">>)
           THEN LET from == SkipSpace(t, i + 1)
                    to == RunEnd(t, from, UrlChars)
                IN [end |-> to, group |-> SubSeq(t, from, to)]
           ELSE NoMatch
      [] pattern = "spotify_id" ->
           \* [a-zA-Z0-9]{22}
           IF i + IdLen - 1 <= Len(t) /\ \A k \in i..(i + IdLen - 1) : t[k] \in Alnum
           THEN [end |-> i + IdLen - 1, group |-> SubSeq(t, i, i + IdLen - 1)]
           ELSE NoMatch
      [] pattern = "broken" ->
           \* https\s*:\s*//\s*open\.\s*spotify\.\s*com\s*/\s*track\s*/\s*([a-zA-Z0-9]+)
           IF At(t, i, Scheme)
           THEN LET open == SkipSpace(t, i + 2)
                    spotify == SkipSpace(t, open + 1)
                    track == SkipSpace(t, spotify + 1)
                    id == SkipSpace(t, track + 2)
                IN IF /\ At(t, open, <<"open.">>)
                      /\ At(t, spotify, <<"spotify.com">>)
                      /\ At(t, track, TrackPath)
                      /\ RunEnd(t, id, Alnum) >= id
                   THEN [end |-> RunEnd(t, id, Alnum),
                         group |-> SubSeq(t, id, RunEnd(t, id, Alnum))]
                   ELSE NoMatch
           ELSE NoMatch
      [] pattern = "fragment" ->
           \* open\.spotify\.com/track/([a-zA-Z0-9]+)
           IF At(t, i, SpotifyHost \o TrackPath) /\ RunEnd(t, i + 4, Alnum) >= i + 4
           THEN [end |-> RunEnd(t, i + 4, Alnum),
                 group |-> SubSeq(t, i + 4, RunEnd(t, i + 4, Alnum))]
           ELSE NoMatch

RECURSIVE FindAllFrom(_, _, _)
FindAllFrom(pattern, t, i) ==
    IF i > Len(t) THEN <<>>
    ELSE LET m == Match(pattern, t, i)
         IN IF m.end = 0
            THEN FindAllFrom(pattern, t, i + 1)
            ELSE <<m.group>> \o FindAllFrom(pattern, t, Max(m.end, i) + 1)

\* re.findall(pattern, t): the non-overlapping matches from left to right
findall(pattern, t) == FindAllFrom(pattern, t, 1)

\* f"https://open.spotify.com/track/{track_id}"
Reconstructed(track_id) == SpotifyPrefix \o track_id

ReconstructedAll(track_ids) ==
    [k \in 1..Len(track_ids) |-> Reconstructed(track_ids[k])]

RECURSIVE Concat(_, _)
Concat(lists, k) ==
    IF k > Len(lists) THEN <<>> ELSE lists[k] \o Concat(lists, k + 1)

\* Strategy 5 (first): a Spotify URL for every run of IdLen alphanumeric
\* characters in what follows 'info', when that is long enough
InfoReconstruction(clean) ==
    IF Contains(clean, <<"info">>)
    THEN LET info_matches == findall("info_section", clean)
         IN Concat([k \in 1..Len(info_matches) |->
                       IF Len(info_matches[k]) > MinInfoLen
                       THEN ReconstructedAll(findall("spotify_id", info_matches[k]))
                       ELSE <<>>], 1)
    ELSE <<>>

RECURSIVE SplitFrom(_, _)
SplitFrom(t, i) ==
    IF i > Len(t) THEN <<>>
    ELSE IF t[i] \in Whitespace THEN SplitFrom(t, i + 1)
         ELSE <<SubSeq(t, i, RunEnd(t, i, UrlChars))>>
                 \o SplitFrom(t, RunEnd(t, i, UrlChars) + 1)

\* t.split()
split(t) == SplitFrom(t, 1)

RECURSIVE UniqueFrom(_, _)
UniqueFrom(urls, k) ==
    IF k > Len(urls) THEN <<>>
    ELSE (IF urls[k] = <<>> \/ \E j \in 1..(k - 1) : urls[j] = urls[k]
          THEN <<>> ELSE <<urls[k]>>) \o UniqueFrom(urls, k + 1)

\* list(dict.fromkeys([url for url in urls if url]))
Unique(urls) == UniqueFrom(urls, 1)

\* the list urls of the source after all strategies, before deduplication
Collected(caption) ==
    LET clean == comprehensive_clean(caption)
        words == split(clean)
    IN    findall("spotify", clean)                              \* Strategy 2
       \o findall("spotify", caption)                            \* Strategy 3
       \o findall("info_url", clean)                             \* Strategy 4
       \o findall("info_url", caption)
       \o InfoReconstruction(clean)                              \* Strategy 5
       \o findall("url", caption) \o findall("url", clean)       \* general
       \o findall("spotify", caption) \o findall("spotify", clean)
       \o SelectSeq(words,                                       \* Strategy 6
                    LAMBDA w : Contains(w, <<"spotify.com">> \o TrackPath))
       \o ReconstructedAll(findall("broken", caption))           \* Strategy 7
       \o ReconstructedAll(findall("broken", clean))

\* unique_urls of the source, the fallback for fragments included
unique_urls(caption) ==
    LET unique == Unique(Collected(caption))
    IN IF /\ unique = <<>>
          /\ Contains(caption, <<"spotify.com">>)
          /\ Contains(caption, SpotifyHost \o TrackPath)
          /\ findall("fragment", caption) # <<>>
       THEN <<Reconstructed(findall("fragment", caption)[1])>>
       ELSE unique

\* the platform table, in the order of the dict: Spotify first; youtu.be
\* stands for the other platforms, whose patterns have its shape
patterns == <<"spotify", "youtu.be">>

\* re.search(pattern, url): the first match of the pattern in url
search(pattern, url) ==
    LET found == {i \in 1..Len(url) : Match(pattern, url, i).end > 0}
    IN IF found = {} THEN NoMatch
       ELSE Match(pattern, url, CHOOSE i \in found : \A o \in found : i <= o)

\* the capture group of a platform pattern: what follows its literal prefix
group1(platform, matched) ==
    IF platform = "spotify" THEN SubSeq(matched, 7, Len(matched))
    ELSE SubSeq(matched, 4, Len(matched))

\* {} : no track
NoTrack == [track_url |-> <<>>, track_id |-> <<>>, platform |-> "none"]

RECURSIVE PlatformOf(_, _)
PlatformOf(url, p) ==
    IF p > Len(patterns) THEN "none"
    ELSE IF search(patterns[p], url).end > 0 THEN patterns[p]
         ELSE PlatformOf(url, p + 1)

\* the inner loop over the platform table for one candidate
TrackOf(url) ==
    LET platform == PlatformOf(url, 1)
    IN IF platform = "none" THEN NoTrack
       ELSE [track_url |-> url,
             track_id |-> group1(platform, search(platform, url).group),
             platform |-> platform]

RECURSIVE LastTrack(_, _)
LastTrack(urls, k) ==
    IF k < 1 THEN NoTrack
    ELSE IF TrackOf(urls[k]) # NoTrack THEN TrackOf(urls[k])
         ELSE LastTrack(urls, k - 1)

RECURSIVE FirstTrackFrom(_, _)
FirstTrackFrom(urls, k) ==
    IF k > Len(urls) THEN NoTrack
    ELSE IF TrackOf(urls[k]) # NoTrack THEN TrackOf(urls[k])
         ELSE FirstTrackFrom(urls, k + 1)

FirstTrack_NoBreak(urls) == LastTrack(urls, Len(urls))

\* the outer loop over the candidates, left at the first track found
FirstTrack(urls) == FirstTrackFrom(urls, 1)

extract_track_info(caption) ==
    IF caption = <<>> THEN NoTrack ELSE FirstTrack(unique_urls(caption))

(* ------------- track identity of handle_media_message ------------------ *)
(* The links of a message are the targets of its caption entities and of  *)
(* its buttons, as the client library delivers them: URLs free of         *)
(* separators and whitespace.  No text of the model holds a base64 run    *)
(* that decodes to text with 'spotify' in it, so the base64 method adds   *)
(* no link.                                                               *)

RECURSIVE JoinFrom(_, _)
JoinFrom(texts, k) ==
    IF k > Len(texts) THEN <<>>
    ELSE IF k = Len(texts) THEN texts[k]
         ELSE texts[k] \o <<" ">> \o JoinFrom(texts, k + 1)

\* " ".join(filter(None, all_text_sources))
combined_text(message_text, entity_urls) ==
    JoinFrom(SelectSeq(<<message_text>> \o entity_urls, LAMBDA t : t # <<>>), 1)

\* [url for url in entity_urls if 'spotify.com/track/' in url]
spotify_entity_urls(entity_urls) ==
    SelectSeq(entity_urls, LAMBDA url : Contains(url, <<"spotify.com">> \o TrackPath))

RECURSIVE DirectFrom(_, _, _)
DirectFrom(direct, k, track_info) ==
    IF k > Len(direct) THEN track_info
    ELSE IF direct[k].track_id # <<>> THEN direct[k]
         ELSE DirectFrom(direct, k + 1, track_info)

direct_track_info_Never(direct, track_info) == track_info

\* the loop over the Spotify links, direct[k] being what extract_track_info
\* returns for the k-th of them: the first result with a track id replaces
\* track_info
direct_track_info(direct, track_info) == DirectFrom(direct, 1, track_info)

\* the track_info that handle_media_message persists for a message: the
\* extraction over the combined text, replaced by the extraction over a
\* Spotify link.  (The second loop over the Spotify links, entered when no
\* track id was found so far, repeats the first and changes nothing.)
track_identity(message_text, entity_urls) ==
    LET texts == <<combined_text(message_text, entity_urls)>>
                    \o spotify_entity_urls(entity_urls)
        extracted == [k \in 1..Len(texts) |-> extract_track_info(texts[k])]
    IN direct_track_info(Tail(extracted), Head(extracted))

\* extract_track_info applied to the text of a message
Extract ==
    /\ extraction.pc = "new"
    /\ extraction' = [extraction EXCEPT
           !.pc = "extracted",
           !.comprehensive_clean = comprehensive_clean(extraction.message_text),
           !.track_info = extract_track_info(extraction.message_text)]
    /\ UNCHANGED <<scanVars, mediaVars>>

\* the track extraction block of handle_media_message applied to a message
Identify ==
    /\ extraction.pc = "new"
    /\ extraction' = [extraction EXCEPT
           !.pc = "identified",
           !.track_info = track_identity(extraction.message_text,
                                         extraction.entity_urls)]
    /\ UNCHANGED <<scanVars, mediaVars>>

(* --------------------------- specifications --------------------------- *)
(* Spec: the dispatcher runs one handler at a time (a handler is started   *)
(* only when no other handler is between its first and its last            *)
(* statement); tasks created by handlers run concurrently with handlers,   *)
(* and every external call may return or raise.                            *)
(*                                                                         *)
(* ConcSpec: the dispatcher runs handlers concurrently (the default of the *)
(* client library); the calls that only report to the user and the store   *)
(* return normally (so the except-block of the task is never entered),     *)
(* fetches may still fail.                                                 *)

\* no handler other than h is between its first and its last statement
Quiet(h) == \A g \in Handlers \ {h} : hs[g].pc \in {"idle", "done"}

HandlerStep(h) ==
    \/ \E m \in 1..MaxSeq : ReceiveLink(h, m)
    \/ \E m \in 1..MaxSeq : ReceiveForward(h, m)
    \/ ReceiveStart(h)
    \/ \E ok \in BOOLEAN : WelcomeReturns(h, ok)
    \/ \E ok \in BOOLEAN, m \in 1..MaxSeq : GetChatReturns(h, ok, m)
    \/ \E ok \in BOOLEAN, sok \in BOOLEAN : SipGetChatReturns(h, ok, sok)
    \/ \E ok \in BOOLEAN : ReplyReturns(h, ok)

LoopStep(l) ==
    \/ LoopStart(l)
    \/ \E ok \in BOOLEAN, ff \in BOOLEAN : InitReturns(l, ok, ff)
    \/ \E r \in {"fail", "nomedia", "media"}, sd \in BOOLEAN, sf \in BOOLEAN,
          ff \in BOOLEAN : FetchReturns(l, r, sd, sf, ff)
    \/ SleepReturns(l)
    \/ \E if \in BOOLEAN, due \in BOOLEAN, sf \in BOOLEAN, ff \in BOOLEAN :
          ItemReturns(l, if, due, sf, ff)
    \/ \E ok \in BOOLEAN, sf \in BOOLEAN, ff \in BOOLEAN : ReportReturns(l, ok, sf, ff)
    \/ \E ok \in BOOLEAN : FinalReturns(l, ok)
    \/ FailedReturns(l)

Next ==
    \/ \E h \in Handlers : Quiet(h) /\ HandlerStep(h)
    \/ \E l \in Handlers : LoopStep(l)
    \/ handle_stop_index_command

Spec == Init /\ [][Next]_vars

\* every call the program awaits eventually returns or raises; the arrival
\* of requests and of the stop command is up to the user
Fairness ==
    /\ \A h \in Handlers :
          WF_vars(hs[h].pc \notin {"idle", "done"} /\ Quiet(h) /\ HandlerStep(h))
    /\ \A l \in Handlers : WF_vars(LoopStep(l))

FairSpec == Spec /\ Fairness

ConcHandlerStep(h) ==
    \/ \E m \in 1..MaxSeq : ReceiveLink(h, m)
    \/ \E m \in 1..MaxSeq : ReceiveForward(h, m)
    \/ ReceiveStart(h)
    \/ WelcomeReturns(h, TRUE)
    \/ \E m \in 1..MaxSeq : GetChatReturns(h, TRUE, m)
    \/ SipGetChatReturns(h, TRUE, TRUE)
    \/ ReplyReturns(h, TRUE)

ConcLoopStep(l) ==
    \/ LoopStart(l)
    \/ InitReturns(l, TRUE, FALSE)
    \/ \E r \in {"fail", "nomedia", "media"} : FetchReturns(l, r, FALSE, FALSE, FALSE)
    \/ \E due \in BOOLEAN : ItemReturns(l, FALSE, due, FALSE, FALSE)
    \/ ReportReturns(l, TRUE, FALSE, FALSE)
    \/ FinalReturns(l, TRUE)

ConcNext ==
    \/ \E h \in Handlers : ConcHandlerStep(h)
    \/ \E l \in Handlers : ConcLoopStep(l)
    \/ handle_stop_index_command

ConcSpec == Init /\ [][ConcNext]_vars

\* media handlers run concurrently and the store answers every call
MediaStep(m) ==
    \/ \E f \in FileIds : handle_media_message(m, f, FALSE, FALSE, FALSE, FALSE)
    \/ PauseReturns(m, FALSE)

MediaNext == \E m \in Media : MediaStep(m)

MediaInit ==
    /\ ScanInit
    /\ store = [c \in Channels |-> 0]
    /\ \E channel \in {None, BackupChannel} : MediaInitial(channel)
    /\ NoExtraction

MediaSpec == MediaInit /\ [][MediaNext]_vars

\* no other invocation of handle_media_message is in progress
MediaQuiet(m) == \A o \in Media \ {m} : mh[o].pc \in {"idle", "done"}

\* media messages are handled one at a time, and every store call and the
\* track extraction may raise
MediaFaultStep(m) ==
    \/ \E f \in FileIds, idf \in BOOLEAN, uf \in BOOLEAN, ef \in BOOLEAN, lf \in BOOLEAN :
          handle_media_message(m, f, idf, uf, ef, lf)
    \/ \E if \in BOOLEAN : PauseReturns(m, if)

MediaFaultNext == \E m \in Media : MediaQuiet(m) /\ MediaFaultStep(m)

MediaFaultSpec == MediaInit /\ [][MediaFaultNext]_vars

\* the monitor tasks run next to the start requests and the scan loop;
\* requests are handled one at a time and only fetches fail
MonitorStep(h) ==
    \/ MonWaitOver(h)
    \/ MonSleepReturns(h)
    \/ \E r \in {"raise", "nothing", "new"} : MonHistoryReturns(h, r)
    \/ \E r \in {"fail", "nomedia", "media"}, more \in BOOLEAN : MonFetchReturns(h, r, more)
    \/ MonItemReturns(h)
    \/ \E more \in BOOLEAN : MonGapReturns(h, more)

MonitorNext ==
    \/ \E h \in Handlers : Quiet(h) /\ ConcHandlerStep(h)
    \/ \E l \in Handlers : ConcLoopStep(l)
    \/ \E h \in Handlers : MonitorStep(h)
    \/ handle_stop_index_command

MonitorSpec == Init /\ [][MonitorNext]_vars

(* ------------------ inputs of the track extraction -------------------- *)
SpotifyUrl(track_id) == SpotifyPrefix \o track_id
YoutubeUrl(track_id) == Scheme \o YoutuBe \o track_id
\* a URL of no platform
OtherUrl == Scheme \o <<"a">>
\* a Spotify URL whose host is broken by a space
BrokenUrl == Scheme \o <<"open.", " ", "spotify.com">> \o TrackPath \o <<"b">>
\* a run of alphanumeric characters as long as a track id
IdRun == [k \in 1..IdLen |-> IF k % 2 = 1 THEN "a" ELSE "b"]

Tokens == {SpotifyUrl(<<"a">>), SpotifyUrl(<<"b">>), YoutubeUrl(<<"a">>), OtherUrl,
           BrokenUrl, <<"info">>, <<" ">>, <<ISEP>>, <<"@">>, <<"a">>, IdRun}

SeqsUpTo(S, n) == UNION {[1..k -> S] : k \in 0..n}

\* captions made of up to MaxTokens words, URLs and separators
Captions == {Concat(tokens, 1) : tokens \in SeqsUpTo(Tokens, MaxTokens)}

\* every text of up to MaxChars characters that are letters, whitespace or
\* separators
Texts == SeqsUpTo({"a", " ", "\n", SHY, ISEP}, MaxChars)

\* the URL that separators are put into
WholeUrl == SpotifyUrl(<<"a", "b">>)
\* one way of putting separators into a URL: what goes after each symbol
\* but the last
Insertions(url) == [1..(Len(url) - 1) -> {"", SHY, ISEP}]

Inserted(url, ins) ==
    Concat([k \in 1..Len(url) |->
               IF k < Len(url) /\ ins[k] # "" THEN <<url[k], ins[k]>> ELSE <<url[k]>>], 1)

Before == {<<>>, <<"info">>, <<"@", "a", " ">>}
After == {<<>>, <<" ", "info">>}

ExtractInit ==
    /\ ScanInit
    /\ store = [c \in Channels |-> 0]
    /\ MediaInitial(BackupChannel)
    /\ \/ \E caption \in Captions \cup Texts :
             extraction = NewExtraction(caption, <<>>, <<>>)
       \/ \E ins \in Insertions(WholeUrl), before \in Before, after \in After :
             extraction = NewExtraction(before \o Inserted(WholeUrl, ins) \o after,
                                        WholeUrl, <<>>)

ExtractNext == Extract

\* extract_track_info as a function of the text it is given
ExtractSpec == ExtractInit /\ [][ExtractNext]_vars

\* the links a message can carry
Links == {SpotifyUrl(<<"a">>), SpotifyUrl(<<"b">>), SpotifyPrefix,
          YoutubeUrl(<<"b">>), OtherUrl}

IdentityInit ==
    /\ ScanInit
    /\ store = [c \in Channels |-> 0]
    /\ MediaInitial(BackupChannel)
    /\ \E caption \in {<<>>} \cup Tokens, entity_urls \in SeqsUpTo(Links, MaxLinks) :
             extraction = NewExtraction(caption, <<>>, entity_urls)

IdentityNext == Identify

\* the track identity of a message as a function of its text and links
IdentitySpec == IdentityInit /\ [][IdentityNext]_vars

(* ------------------------------ properties ---------------------------- *)
\* a task exists from asyncio.create_task until its finally-block has run
TaskAlive(l) == loops[l].pc \notin {"none", "done"}

\* the loop of the task has been left (final report or except-block pending)
Exited(l) == loops[l].pc \in {"final", "failed"}

\* C1: under any interleaving of start requests, at most one
\* index_channel_messages task is running at any time.
C1_AtMostOneLoopTask ==
    Cardinality({l \in Handlers : TaskAlive(l)}) <= 1

\* the step of handler h in which it tests indexing_process["active"]
TestsActive(h) ==
    \/ hs[h].pc = "idle" /\ hs'[h].pc \notin {"idle", "welcome"}
    \/ hs[h].pc = "welcome" /\ hs'[h].pc # "welcome" /\ hs'[h].res # "failed"

\* C2: a start request that finds the session active is rejected: the handler
\* returns, no task is created and no field of the session state changes.
C2_StartRejectedWhileActive ==
    [][\A h \in Handlers :
          (indexing_process.active /\ TestsActive(h)) =>
              /\ hs'[h] = DoneHandler("rejected")
              /\ loops' = loops
              /\ indexing_process' = indexing_process]_vars

C2_Witness ==
    \E h \in Handlers, l \in Handlers :
        /\ hs[h].res = "rejected"
        /\ loops[h].pc = "none"
        /\ loops[l].pc = "fetch"
        /\ indexing_process.active

\* C3: whenever the active flag has been set, it eventually becomes false
\* again, given that every awaited call eventually returns or raises.
C3_ActiveEventuallyCleared ==
    indexing_process.active ~> ~indexing_process.active

\* C4: after a stop request during an active scan the loop finishes at most
\* the item in flight, fetches no later sequence number, and the session ends
\* in the Stopped outcome.
C4_StopBoundsScan ==
    \A l \in Handlers :
        hist[l].marked =>
            /\ loops[l].pc \in {"fetch", "sleep", "item", "report"} =>
                   loops[l].cur <= hist[l].mark
            /\ loops[l].pc = "final" => hist[l].report = "Stopped"
            /\ loops[l].pc # "failed"

\* C5: a session that ends because of a stop request checkpoints the sequence
\* number of the last item whose iteration completed.
C5_StopCheckpointsLastCompleted ==
    \A l \in Handlers :
        (loops[l].pc = "final" /\ hist[l].stopExit /\ hist[l].lastDone # None) =>
            hist[l].ckpt = hist[l].lastDone

C5_Witness ==
    \E l \in Handlers :
        /\ loops[l].pc = "final"
        /\ hist[l].stopExit
        /\ hist[l].mark >= 1
        /\ hist[l].lastDone = hist[l].mark
        /\ hist[l].ckpt = hist[l].mark
        /\ hist[l].mark < loops[l].final

\* C6: when max_failures consecutive fetches have failed the session ends in
\* the Failed outcome, and no later sequence number is fetched.
C6_BudgetExhaustedEndsFailed ==
    \A l \in Handlers :
        hist[l].failRun >= max_failures =>
            /\ loops[l].pc \notin {"fetch", "sleep", "item", "report"}
            /\ (loops[l].pc = "final" /\ ~hist[l].stopExit) => hist[l].report = "Failed"

\* C7: the consecutive-failure counter counts failed fetches only: it is the
\* length of the current run of failed fetches.
C7_CounterCountsFetchFailuresOnly ==
    \A l \in Handlers : loops[l].cf = hist[l].failRun

\* C8: a session that aborts on the failure budget checkpoints the sequence
\* of the last successful fetch (the position before its start if there was
\* none), not a sequence whose fetch failed.
C8_AbortCheckpointsLastFetched ==
    \A l \in Handlers :
        (loops[l].pc = "final" /\ hist[l].failRun >= max_failures /\ ~hist[l].stopExit) =>
            hist[l].ckpt = IF hist[l].lastOk # None THEN hist[l].lastOk
                           ELSE loops[l].start - 1

\* C9: the stored cursor of the channel equals the largest sequence handed
\* to a checkpoint so far (or the initial value while that is larger).
C9_CheckpointKeepsMaximum ==
    store[Chan] = maxPassed[Chan]

\* C10: the persisted last indexed sequence of the channel never decreases.
C10_CursorNeverDecreases ==
    [][store'[Chan] >= store[Chan]]_vars

\* the loop was left because the range is exhausted, with neither a stop
\* request nor an exhausted failure budget
Completed(l) ==
    /\ loops[l].pc = "final"
    /\ ~hist[l].stopExit
    /\ loops[l].cf < max_failures
    /\ loops[l].cur > loops[l].final

\* the sequence numbers start..end in ascending order
Range(start, end) == [i \in 1..(end - start + 1) |-> start + i - 1]

\* C11: a scan started from a message link with persisted cursor c begins
\* fetching at exactly c + 1 (at 1 with no persisted progress, c = 0).
C11_LinkResumesAfterCursor ==
    [][\A h \in Handlers :
          /\ (hs[h].pc = "chat" /\ hs[h].kind = "link" /\ hs'[h].pc = "sip") =>
                 hs'[h].start = store[Chan] + 1
          /\ (loops[h].pc = "init" /\ loops'[h].pc = "fetch") =>
                 loops'[h].cur = loops[h].start]_vars

\* C12: in a session over [start, end] with start <= end that reaches
\* Completed, every sequence number of the range has been fetched exactly
\* once, in ascending order, and nothing outside the range.
C12_CompletedFetchedRangeOnce ==
    \A l \in Handlers :
        (Completed(l) /\ loops[l].start <= loops[l].final) =>
            hist[l].log = Range(loops[l].start, loops[l].final)

C12_Witness ==
    \E l \in Handlers :
        /\ Completed(l)
        /\ loops[l].final - loops[l].start >= 2
        /\ Len(hist[l].log) = 3
        /\ loops[l].processed >= 1

\* C13 as stated: on reaching Completed the final checkpoint equals the end
\* sequence of the range.
C13_CompletedCheckpointsEnd ==
    \A l \in Handlers : Completed(l) => hist[l].ckpt = loops[l].final

\* C13 amended: for a non-empty range (start <= end) the final checkpoint on
\* reaching Completed equals the end sequence and the completion report is
\* the one chosen; for an empty range the checkpoint is start - 1.
C13_CompletedCheckpointsEndOfNonEmptyRange ==
    \A l \in Handlers :
        Completed(l) =>
            /\ hist[l].report = "Completed"
            /\ hist[l].ckpt = IF loops[l].start <= loops[l].final
                              THEN loops[l].final ELSE loops[l].start - 1

C13_Witness ==
    \E l \in Handlers :
        /\ Completed(l)
        /\ loops[l].start < loops[l].final
        /\ hist[l].ckpt = loops[l].final
        /\ store[Chan] = loops[l].final

\* C14: every fault while extracting, persisting or mirroring one item is
\* counted in the error counter of the session, and the loop goes on.
C14_ItemFaultsAreCounted ==
    \A l \in Handlers : loops[l].errors >= hist[l].itemFaults

\* C20: a failure of the progress sink never fails the loop: it neither
\* sends the session to the failure branch nor counts as an item failure.
C20_SinkFaultNeverFailsLoop ==
    \A l \in Handlers :
        /\ loops[l].pc = "failed" => ~hist[l].sinkFailed
        /\ loops[l].errors <= hist[l].itemFaults

\* number of documents of the collection whose field key has the value
CountOf(collection, key, value) ==
    BagCardinality([d \in Matching(collection, key, value) |-> CopiesIn(d, collection)])

\* the file is recorded, by file_id or by file_unique_id
Recorded(file_id) ==
    \/ Matching(files, "file_id", file_id) # {}
    \/ Matching(files, "file_unique_id", get_file_metadata(file_id).file_unique_id) # {}

\* an invocation of handle_media_message for the file has not returned yet
InProgress(file_id) ==
    \E m \in Media : mh[m].pc \notin {"idle", "done"} /\ mh[m].file_id = file_id

\* C16: the store never holds two records with the same file_id, and an
\* insert of an already present file_id leaves the collection as it is and
\* reports failure (insert_file returns False) instead of raising.
C16_OneRecordPerFileId ==
    [][/\ \A f \in FileIds : CountOf(files', "file_id", f) <= 1
       /\ \A m \in Media :
             (/\ mh[m].pc = "pause"
              /\ mh'[m].pc = "done"
              /\ Matching(files, "file_id", mh[m].file_id) # {}) =>
                 (files' = files /\ mh'[m].res \in {"duplicate", "failed"})]_vars

C16_Witness ==
    \E m \in Media :
        /\ mh[m].pc = "done"
        /\ mh[m].res = "duplicate"
        /\ \E f \in FileIds : CountOf(files, "file_id", f) = 1

\* C17: under any interleaving of concurrent media handlers the store never
\* holds two records with the same file_unique_id.
C17_OneRecordPerUniqueId ==
    \A f \in FileIds :
        CountOf(files, "file_unique_id", get_file_metadata(f).file_unique_id) <= 1

\* C18: handling a media message whose file is already recorded (by file_id
\* or file_unique_id) is a no-op: no step of the handler changes the
\* collection.
C18_RecordedFileIsNoOp ==
    [][\A m \in Media :
          (mh[m].pc = "pause" /\ mh[m].known /\ mh'[m].pc = "done") =>
              files' = files]_vars

\* C19: with a backup channel configured, every recorded file has been
\* delivered to the backup channel (its record carries the file id of the
\* backup copy), or is still being handled, or is still eligible for
\* mirroring (a later handling of its message would not skip it).
C19_RecordedIsMirroredOrEligible ==
    backup_channel_id # None =>
        \A d \in BagToSet(files) :
            \/ d.backup_file_id # None
            \/ InProgress(d.file_id)
            \/ ~Recorded(d.file_id)

\* C21: the rate-limit sleep is taken only in an iteration whose fetched
\* message carries media; an iteration for a message without media or for a
\* failed fetch takes none.
C21_RateLimitOnlyForMedia ==
    \A l \in Handlers :
        loops[l].pc = "sleep" =>
            /\ hist[l].media
            /\ hist[l].lastOk = loops[l].cur

C21_Witness ==
    \E l \in Handlers :
        /\ loops[l].pc = "sleep"
        /\ hist[l].media
        /\ hist[l].lastDone # None

\* C28: while checkpoint writes succeed, whenever the loop condition is
\* evaluated current_msg_id - last_saved_progress <= SaveEvery +
\* consecutive_failures (SaveEvery is 50 in the source).
C28_SavedProgressLag ==
    \A l \in Handlers :
        (loops[l].pc \in {"fetch", "final"} /\ ~hist[l].saveFailed) =>
            loops[l].cur - loops[l].saved <= SaveEvery + loops[l].cf

C28_Witness ==
    \E l \in Handlers :
        /\ loops[l].pc = "fetch"
        /\ ~hist[l].saveFailed
        /\ loops[l].cf >= 1
        /\ loops[l].cur - loops[l].saved >= 2

\* the monitor is fetching or handling the new messages it found
MonitorProcessing(h) == mon[h] \in {"fetch", "item", "gap"}

\* C29: the monitor task fetches and processes messages only while no indexing
\* session is active: never at the same time as an index_channel_messages
\* loop.
C29_MonitorOnlyWhileIdle ==
    \A h \in Handlers :
        MonitorProcessing(h) =>
            /\ ~indexing_process.active
            /\ \A l \in Handlers : ~Running(l)

\* some platform pattern matches the candidate
MatchesAnyPattern(url) ==
    \E p \in 1..Len(patterns) : \E i \in 1..Len(url) : Match(patterns[p], url, i).end > 0

(* C22: extraction returns the match of the first candidate, in the order  *)
(* the candidates were collected, that matches any platform pattern;       *)
(* candidates before it that match nothing are skipped, and it returns no  *)
(* track when no candidate matches.                                        *)
C22_FirstMatchingCandidateWins ==
    extraction.pc = "extracted" =>
        LET candidates == unique_urls(extraction.message_text)
            matching == {k \in 1..Len(candidates) : MatchesAnyPattern(candidates[k])}
        IN /\ matching = {} => extraction.track_info = NoTrack
           /\ \A k \in matching :
                 (\A j \in matching : k <= j) =>
                    /\ extraction.track_info.track_url = candidates[k]
                    /\ extraction.track_info = TrackOf(candidates[k])

\* a candidate that matches nothing was skipped, and a later candidate with
\* another track did not win
C22_Witness ==
    /\ extraction.pc = "extracted"
    /\ LET candidates == unique_urls(extraction.message_text)
       IN \E k \in 2..Len(candidates) :
             /\ \A j \in 1..(k - 1) : ~MatchesAnyPattern(candidates[j])
             /\ extraction.track_info.track_url = candidates[k]
             /\ \E l \in (k + 1)..Len(candidates) :
                   /\ MatchesAnyPattern(candidates[l])
                   /\ TrackOf(candidates[l]).track_id # extraction.track_info.track_id

\* the characters of a text
Chars(t) == {t[k] : k \in 1..Len(t)}

(* C23: when soft hyphens and invisible separators are put anywhere into a *)
(* Spotify track URL (scheme, host, path or id) and the result stands in a *)
(* caption, extraction over the caption returns the track_id that          *)
(* extraction returns for the unbroken URL.                                *)
C23_SeparatorsInUrlChangeNothing ==
    (extraction.pc = "extracted" /\ extraction.url # <<>>) =>
        extraction.track_info.track_id = extract_track_info(extraction.url).track_id

\* a URL broken by both separators was extracted from
C23_Witness ==
    /\ extraction.pc = "extracted"
    /\ extraction.url # <<>>
    /\ {SHY, ISEP} \subseteq Chars(extraction.message_text)
    /\ ~Contains(extraction.message_text, extraction.url)
    /\ extraction.track_info.track_id = <<"a", "b">>

\* the text holds nothing but mentions ("@" and the name after it), the
\* word 'info' on its own, whitespace and separators: no URL, no hostname
MentionsOnly(t) ==
    /\ Chars(t) \subseteq {"@", "a", "b", "info", SHY, ISEP} \cup Whitespace
    /\ \A k \in 1..Len(t) :
          \/ t[k] \notin Alnum
          \/ \E m \in 1..(k - 1) : t[m] = "@" /\ \A j \in (m + 1)..k : t[j] \in Alnum
          \/ /\ t[k] = "info"
             /\ k > 1 => t[k - 1] \notin Alnum
             /\ k < Len(t) => t[k + 1] \notin Alnum

(* C24: for a caption that holds no URL and no platform hostname, only     *)
(* mentions, the word 'info' and separators, extraction returns no track.  *)
C24_MentionsOnlyYieldNoTrack ==
    (extraction.pc = "extracted" /\ MentionsOnly(extraction.message_text)) =>
        extraction.track_info = NoTrack

\* a track URL of some platform stands in the text
TrackUrlIn(t) ==
    \E p \in 1..Len(patterns) : \E i \in 1..Len(t) : Match(patterns[p], t, i).end > 0

(* C25: a reconstructed candidate (a Spotify URL made from an alphanumeric *)
(* run after 'info' or from a rejoined host) is not what extraction        *)
(* returns when the text holds a track URL of some platform: the URL       *)
(* returned then stands in the text, as given or with its separators       *)
(* removed.                                                                *)
C25_NoGuessBesideDirectUrl ==
    LET caption == extraction.message_text
        clean == extraction.comprehensive_clean
    IN (extraction.pc = "extracted" /\ (TrackUrlIn(caption) \/ TrackUrlIn(clean))) =>
          \/ Contains(caption, extraction.track_info.track_url)
          \/ Contains(clean, extraction.track_info.track_url)

(* C26: the cleaning step (remove every U+2063 and U+00AD, collapse each   *)
(* whitespace run to one space) is idempotent: applied to its own output   *)
(* it returns that output unchanged.                                       *)
C26_CleaningIsIdempotent ==
    extraction.pc = "extracted" =>
        comprehensive_clean(extraction.comprehensive_clean)
            = extraction.comprehensive_clean

\* a text was cleaned in which only a separator stood between two
\* whitespace characters
C26_Witness ==
    /\ extraction.pc = "extracted"
    /\ \E k \in 2..(Len(extraction.message_text) - 1) :
          /\ extraction.message_text[k] \in {SHY, ISEP}
          /\ extraction.message_text[k - 1] \in Whitespace
          /\ extraction.message_text[k + 1] \in Whitespace
    /\ extraction.comprehensive_clean # extraction.message_text
    /\ Chars(extraction.comprehensive_clean) \cap {SHY, ISEP, "\n"} = {}

\* the link holds a Spotify track URL with a track id
SpotifyLink(url) == \E i \in 1..Len(url) : Match("spotify", url, i).end > 0

(* C30: when an entity link or button link of a message holds a Spotify    *)
(* track URL with a track id, the track identity kept for the message is   *)
(* that of the first such link, whatever the text of the message holds.    *)
C30_FirstSpotifyLinkWins ==
    extraction.pc = "identified" =>
        \A k \in 1..Len(extraction.entity_urls) :
            (/\ SpotifyLink(extraction.entity_urls[k])
             /\ \A j \in 1..(k - 1) : ~SpotifyLink(extraction.entity_urls[j])) =>
                /\ extraction.track_info.platform = "spotify"
                /\ extraction.track_info.track_id
                      = group1("spotify", search("spotify", extraction.entity_urls[k]).group)

\* the text alone yields another track than the first Spotify link, which
\* is not the first link
C30_Witness ==
    /\ extraction.pc = "identified"
    /\ Len(extraction.entity_urls) >= 2
    /\ ~SpotifyLink(extraction.entity_urls[1])
    /\ SpotifyLink(extraction.entity_urls[2])
    /\ extraction.track_info.track_url = extraction.entity_urls[2]
    /\ extract_track_info(extraction.message_text).platform = "spotify"
    /\ extract_track_info(extraction.message_text).track_id
          # extraction.track_info.track_id

====
